---------------------------- MODULE Spec2Model ----------------------------
(***************************************************************************)
(* FNET_Transport (fnet/transport.cpp): the facade over a pool of          *)
(* FNET_TransportThread workers.  The facade's methods are translated      *)
(* from transport.cpp; the workers, the async resolver and XXH64 are       *)
(* collaborators whose code is outside the fragment and are modelled from  *)
(* their contract.                                                         *)
(***************************************************************************)
EXTENDS Integers, Sequences, FiniteSets, TLC

(* ------------------------------ bounds --------------------------------- *)
\* largest num_threads handed to the constructor
MaxThreads == 3
\* key bytes are drawn from 0..MaxByte, keys have at most MaxKeyLen bytes
MaxByte == 1
MaxKeyLen == 2
\* addresses of the call-local HashState and clock readings
MaxAddr == 2
MaxTime == 2
\* caller threads that use the facade at the same time
NumCallers == 2
\* I/O components the workers can create before they run out of resources
MaxComps == 2
\* the uint32 tuning values are drawn from 0..MaxVal
MaxVal == 1
\* executables the workers accept through execute
MaxExe == 1
\* resolutions requested through resolve_async
MaxResolves == 2
\* config servers in the list of a ConfigServerHttpRequestExecutor
MaxHosts == 2

(* --------------------------- the selector ------------------------------ *)
\* width of the hash values of the model: XXH64 returns 64 bits, the model
\* keeps HashBits of them so that the arithmetic stays inside TLC's integers
HashBits == 16
HashMod == 2 ^ HashBits

Bytes == 0..MaxByte
Keys == UNION { [1..n -> Bytes] : n \in 0..MaxKeyLen }
\* the sentinel key (nullptr, 0): no byte is read
SentinelKey == << >>
Addrs == 0..MaxAddr
Times == 0..MaxTime

RECURSIVE XXH64Fold(_, _, _)
XXH64Fold(words, i, h) ==
    IF i > Len(words) THEN h
    ELSE XXH64Fold(words, i + 1, (h * 31 + words[i] + 1) % HashMod)

\* XXH64(input, len, seed): a deterministic mix of the seed, the length and
\* every input word
XXH64(words, seed) == XXH64Fold(words, 1, (seed + 40503 + Len(words)) % HashMod)

\* struct HashState { self; now; key_hash } as built by its constructor
HashState(key, self, now) ==
    [self |-> self, now |-> now, key_hash |-> XXH64(key, 0)]

\* a mutant of select_thread: the modulus is off by one
select_thread_off_by_one(size, key, self, now) ==
    LET hash_state == HashState(key, self, now)
        hash_value == XXH64(<<hash_state.self, hash_state.now, hash_state.key_hash>>, 0)
    IN  hash_value % (size + 1)

\* a mutant of select_thread: the key's hash alone is reduced, the salt of
\* the call (self, now) is left out
select_thread_key_only(size, key, self, now) ==
    LET hash_state == HashState(key, self, now)
        hash_value == XXH64(<<hash_state.key_hash>>, 0)
    IN  hash_value % size

\* FNET_Transport::select_thread: the index thread_id of the worker returned
\* (size is _threads.size(), self and now are the call's salt)
select_thread(size, key, self, now) ==
    LET hash_state == HashState(key, self, now)
        hash_value == XXH64(<<hash_state.self, hash_state.now, hash_state.key_hash>>, 0)
    IN  hash_value % size

(* ------------------------------ state ---------------------------------- *)
VARIABLES
    nthreads,   \* _threads.size()
    aborted,    \* an assert of the facade has failed: the process is gone
    requested,  \* the num_threads the constructor was called with
    picked,     \* the last select_thread call: its inputs and the index returned,
                \* and the index the call before it returned if that call
                \* had the same key (else _threads.size(), no index)
    pc,         \* per caller thread: the facade call it is inside, and where
    last,       \* the facade call that returned last: its result and the
                \* workers it called, in call order
    ioc,        \* the I/O components created so far, by id (FNET_IOComponent)
    chosenFor,  \* per component: the index select_thread returned in the
                \* Listen/Connect call that created it
    wcomps,     \* per worker: the components in its list (FNET_TransportThread)
    wconfig,    \* per worker: its tuning settings (FNET_TransportThread)
    wstate,     \* per worker: "created", "running" (its event loop runs) or
                \* "finished" (the loop has ended: the worker is terminated)
    wshut,      \* per worker: shutdown has been signalled
    wqueue,     \* per worker: its event queue, oldest first
    executed,   \* the executables that have been run, by id
    nextExe,    \* the number of executables accepted so far (the last id)
    life,       \* how far the caller is in Start; ShutDown(true); WaitFinished
    resolves,   \* the resolutions requested through resolve_async, by id:
                \* whether the result handler is still held by its owner, and
                \* whether the resolver has delivered or skipped the callback
    dtor,       \* how far ~FNET_Transport has come
    cfg         \* ConfigServerHttpRequestExecutor: the tryAllConfigServers call
                \* in progress (its loop variables, the requests sent so far
                \* and how each ended) and how the call ended

facadeVars == <<nthreads, aborted, requested>>
callVars == <<pc, last>>
ioVars == <<ioc, chosenFor, wcomps>>
tuneVars == <<wconfig>>
lifeVars == <<wstate, wshut, wqueue, executed, nextExe, life>>
resolveVars == <<resolves, dtor>>
cfgVars == <<cfg>>
vars == <<nthreads, aborted, requested, picked, pc, last, ioc, chosenFor, wcomps, wconfig,
          wstate, wshut, wqueue, executed, nextExe, life, resolves, dtor, cfg>>

Threads == 0..(nthreads - 1)
Callers == 1..NumCallers
NoPick == [called |-> FALSE]

\* no other caller thread is inside a facade call
Alone(c) == \A d \in Callers \ {c} : pc[d].op = "idle"

\* a caller thread outside every facade call
Idle == [op |-> "idle", i |-> 0, phase |-> "call", acc |-> 0, quiet |-> TRUE,
         visited |-> << >>, res |-> << >>]
\* no facade call has returned yet
NoCall == [op |-> "none", val |-> 0, visited |-> << >>, quiet |-> TRUE, res |-> << >>]
\* the return of a facade call: its value, the workers it called in call
\* order and what each worker call returned
Return(op, val, visited, res) ==
    [op |-> op, val |-> val, visited |-> visited, quiet |-> TRUE, res |-> res]

\* private int pauseBetweenRetriesMs = 10_000
InitialPauseMs == 10000

\* ConfigServerHttpRequestExecutor before any request: no call in progress
CfgIdle ==
    [pc |-> "idle", hosts |-> 0, loopRetry |-> 0, next |-> 0, lastException |-> 0,
     sent |-> << >>, outcome |-> "none", cause |-> 0,
     pauseBetweenRetriesMs |-> InitialPauseMs]

\* the settings of a worker as its constructor leaves them
W_DefaultConfig ==
    [iocTimeOut |-> 0, maxInputBufferSize |-> 0, maxOutputBufferSize |-> 0,
     directWrite |-> FALSE, tcpNoDelay |-> FALSE, logStats |-> FALSE]

\* a mutant of the constructor: the assert is gone, a pool of no workers is
\* constructed
Construct_no_assert(num_threads) ==
    /\ requested = num_threads
    /\ aborted = FALSE
    /\ nthreads = IF num_threads >= 1 THEN num_threads ELSE 0
    /\ picked = NoPick
    /\ pc = [c \in Callers |-> Idle]
    /\ last = NoCall
    /\ ioc = << >>
    /\ chosenFor = << >>
    /\ wcomps = [t \in 0..(num_threads - 1) |-> {}]
    /\ wconfig = [t \in 0..(num_threads - 1) |-> W_DefaultConfig]
    /\ wstate = [t \in 0..(num_threads - 1) |-> "created"]
    /\ wshut = [t \in 0..(num_threads - 1) |-> FALSE]
    /\ wqueue = [t \in 0..(num_threads - 1) |-> << >>]
    /\ executed = {}
    /\ nextExe = 0
    /\ life = "new"
    /\ resolves = << >>
    /\ dtor = "none"
    /\ cfg = CfgIdle

\* FNET_Transport::FNET_Transport(resolver, num_threads): assert(num_threads
\* >= 1), then one worker per index 0..num_threads-1, in index order
Construct(num_threads) ==
    /\ requested = num_threads
    /\ aborted = (~(num_threads >= 1))
    /\ nthreads = IF num_threads >= 1 THEN num_threads ELSE 0
    /\ picked = NoPick
    /\ pc = [c \in Callers |-> Idle]
    /\ last = NoCall
    /\ ioc = << >>
    /\ chosenFor = << >>
    /\ wcomps = [t \in 0..(num_threads - 1) |-> {}]
    /\ wconfig = [t \in 0..(num_threads - 1) |-> W_DefaultConfig]
    /\ wstate = [t \in 0..(num_threads - 1) |-> "created"]
    /\ wshut = [t \in 0..(num_threads - 1) |-> FALSE]
    /\ wqueue = [t \in 0..(num_threads - 1) |-> << >>]
    /\ executed = {}
    /\ nextExe = 0
    /\ life = "new"
    /\ resolves = << >>
    /\ dtor = "none"
    /\ cfg = CfgIdle

Init == \E num_threads \in 0..MaxThreads : Construct(num_threads)

(* ------------------------- selector, stand-alone ----------------------- *)
\* one call of select_thread with an arbitrary key and salt
SelectThread ==
    /\ ~aborted
    /\ \E key \in Keys, self \in Addrs, now \in Times :
          picked' = [called |-> TRUE, key |-> key, self |-> self, now |-> now,
                     thread |-> select_thread(nthreads, key, self, now),
                     prev |-> IF picked.called /\ picked.key = key
                              THEN picked.thread ELSE nthreads]
    /\ UNCHANGED <<facadeVars, cfgVars, callVars, ioVars, tuneVars, lifeVars, resolveVars>>

NextSelect == SelectThread
SpecSelect == Init /\ [][NextSelect]_vars

\* C1: for every pool size N >= 1 and every key, the sentinel included,
\* select_thread returns an index in [0, N); with N = 1 it returns 0 whatever
\* the key and the salt are.
C1_SelectInRange ==
    picked.called =>
        /\ picked.thread \in 0..(nthreads - 1)
        /\ (nthreads = 1 => picked.thread = 0)

\* a sentinel-key call on the largest pool picked its last worker
C1_Witness ==
    /\ picked.called
    /\ picked.key = SentinelKey
    /\ nthreads = MaxThreads
    /\ picked.thread = nthreads - 1

\* C14: the worker select_thread returns is not a function of the key
\* alone: with two or more workers, whatever key a call was made with and
\* whatever worker it returned, a call with the same key and another salt
\* (address of the hash state, time stamp) returns a different worker.
C14_SaltDecides ==
    (picked.called /\ nthreads >= 2) =>
        \E self \in Addrs, now \in Times :
            select_thread(nthreads, picked.key, self, now) # picked.thread

\* two consecutive calls with the same non-empty key returned different workers
C14_Witness ==
    /\ picked.called
    /\ nthreads >= 2
    /\ picked.key # SentinelKey
    /\ picked.prev \in Threads
    /\ picked.prev # picked.thread

(* ------------------- endpoint operations and the router ---------------- *)
Comps == 1..Len(ioc)
LiveComps == { k \in Comps : ioc[k].live }

\* FNET_TransportThread::Listen / Connect on worker t, when it succeeds: the
\* new component has the creating worker as its owner and is in its list
W_NewComponent(t) == [owner |-> t, live |-> TRUE]

\* FNET_TransportThread::Add/EnableRead/DisableRead/EnableWrite/DisableWrite/
\* Close on worker t: the component and the list of worker t afterwards (the
\* read and write registrations are inside the worker's selector and are not
\* kept)
W_Component(op, comp) ==
    IF op = "Close" THEN [ioc[comp] EXCEPT !.live = FALSE] ELSE ioc[comp]
W_List(t, op, comp) ==
    CASE op = "Add"   -> wcomps[t] \cup {comp}
      [] op = "Close" -> wcomps[t] \ {comp}
      [] OTHER        -> wcomps[t]

\* FNET_TransportThread::GetNumIOComponents on worker t
W_GetNumIOComponents(t) == Cardinality(wcomps[t])

\* the workers select_thread(spec, strlen(spec)) can return, over the specs
\* and the salts of a call
SelectableBySize ==
    [size \in 1..MaxThreads |->
        { select_thread(size, key, self, now) :
              key \in Keys, self \in Addrs, now \in Times }]
Selectable == SelectableBySize[nthreads]

\* a Listen, Connect or Close has run: a GetNumIOComponents in progress on
\* another caller thread no longer sums a quiescent pool
Disturbed(c) ==
    [d \in Callers |->
        IF d # c /\ pc[d].op = "GetNumIOComponents"
        THEN [pc[d] EXCEPT !.quiet = FALSE] ELSE pc[d]]

\* the call `worker t ->Listen(...)` or `->Connect(...)` and the return of its
\* result: a new component, or null (0) when the worker fails
Forward(c, op, t) ==
    /\ \E ok \in BOOLEAN :
          IF ok /\ Len(ioc) < MaxComps
          THEN /\ ioc' = Append(ioc, W_NewComponent(t))
               /\ wcomps' = [wcomps EXCEPT ![t] = @ \cup {Len(ioc) + 1}]
               /\ last' = Return(op, Len(ioc) + 1, <<t>>, <<Len(ioc) + 1>>)
          ELSE /\ UNCHANGED <<ioc, wcomps>>
               /\ last' = Return(op, 0, <<t>>, <<0>>)
    /\ pc' = Disturbed(c)

\* a mutant of Listen: the call goes to _threads[0], not to the selected worker
Listen_first_thread(c) ==
    /\ ~aborted
    /\ pc[c].op = "idle"
    /\ \E t \in Selectable :
          /\ Forward(c, "Listen", 0)
          /\ chosenFor' = IF Len(ioc') > Len(ioc) THEN Append(chosenFor, t) ELSE chosenFor
    /\ UNCHANGED <<facadeVars, cfgVars, picked, tuneVars, lifeVars, resolveVars>>

\* FNET_Transport::Listen
Listen(c) ==
    /\ ~aborted
    /\ pc[c].op = "idle"
    /\ \E t \in Selectable :
          /\ Forward(c, "Listen", t)
          /\ chosenFor' = IF Len(ioc') > Len(ioc) THEN Append(chosenFor, t) ELSE chosenFor
    /\ UNCHANGED <<facadeVars, cfgVars, picked, tuneVars, lifeVars, resolveVars>>

\* a mutant of Connect: when the selected worker returns null the next
\* worker is tried
Connect_retries(c) ==
    /\ ~aborted
    /\ pc[c].op = "idle"
    /\ \E t \in Selectable :
          \E ok \in BOOLEAN :
             IF ok /\ Len(ioc) < MaxComps
             THEN /\ ioc' = Append(ioc, W_NewComponent(t))
                  /\ wcomps' = [wcomps EXCEPT ![t] = @ \cup {Len(ioc) + 1}]
                  /\ chosenFor' = Append(chosenFor, t)
                  /\ last' = Return("Connect", Len(ioc) + 1, <<t>>, <<Len(ioc) + 1>>)
             ELSE LET u == (t + 1) % nthreads
                  IN  IF Len(ioc) < MaxComps
                      THEN /\ ioc' = Append(ioc, W_NewComponent(u))
                           /\ wcomps' = [wcomps EXCEPT ![u] = @ \cup {Len(ioc) + 1}]
                           /\ chosenFor' = Append(chosenFor, u)
                           /\ last' = Return("Connect", Len(ioc) + 1, <<t, u>>,
                                             <<0, Len(ioc) + 1>>)
                      ELSE /\ UNCHANGED <<ioc, wcomps, chosenFor>>
                           /\ last' = Return("Connect", 0, <<t, u>>, <<0, 0>>)
    /\ pc' = Disturbed(c)
    /\ UNCHANGED <<facadeVars, cfgVars, picked, tuneVars, lifeVars, resolveVars>>

\* FNET_Transport::Connect
Connect(c) ==
    /\ ~aborted
    /\ pc[c].op = "idle"
    /\ \E t \in Selectable :
          /\ Forward(c, "Connect", t)
          /\ chosenFor' = IF Len(ioc') > Len(ioc) THEN Append(chosenFor, t) ELSE chosenFor
    /\ UNCHANGED <<facadeVars, cfgVars, picked, tuneVars, lifeVars, resolveVars>>

RouterOps == {"Add", "EnableRead", "DisableRead", "EnableWrite", "DisableWrite", "Close"}

\* the call `worker t ->op(comp, needRef)`; needRef only moves the reference
\* count of the component, which the model does not keep
Route(c, op, comp, t) ==
    /\ ioc' = [ioc EXCEPT ![comp] = W_Component(op, comp)]
    /\ wcomps' = [wcomps EXCEPT ![t] = W_List(t, op, comp)]
    /\ last' = Return(op, comp, <<t>>, << >>)
    /\ pc' = IF op = "Close" THEN Disturbed(c) ELSE pc
    /\ UNCHANGED <<facadeVars, cfgVars, picked, chosenFor, tuneVars, lifeVars, resolveVars>>

\* FNET_Transport::Add
Add(c) ==
    /\ ~aborted
    /\ pc[c].op = "idle"
    /\ \E comp \in LiveComps : Route(c, "Add", comp, ioc[comp].owner)

\* a mutant of EnableRead: the call goes to _threads[0], not to the owner
EnableRead_first_thread(c) ==
    /\ ~aborted
    /\ pc[c].op = "idle"
    /\ \E comp \in LiveComps : Route(c, "EnableRead", comp, 0)

\* FNET_Transport::EnableRead
EnableRead(c) ==
    /\ ~aborted
    /\ pc[c].op = "idle"
    /\ \E comp \in LiveComps : Route(c, "EnableRead", comp, ioc[comp].owner)

\* FNET_Transport::DisableRead
DisableRead(c) ==
    /\ ~aborted
    /\ pc[c].op = "idle"
    /\ \E comp \in LiveComps : Route(c, "DisableRead", comp, ioc[comp].owner)

\* FNET_Transport::EnableWrite
EnableWrite(c) ==
    /\ ~aborted
    /\ pc[c].op = "idle"
    /\ \E comp \in LiveComps : Route(c, "EnableWrite", comp, ioc[comp].owner)

\* FNET_Transport::DisableWrite
DisableWrite(c) ==
    /\ ~aborted
    /\ pc[c].op = "idle"
    /\ \E comp \in LiveComps : Route(c, "DisableWrite", comp, ioc[comp].owner)

\* FNET_Transport::Close
Close(c) ==
    /\ ~aborted
    /\ pc[c].op = "idle"
    /\ \E comp \in LiveComps : Route(c, "Close", comp, ioc[comp].owner)

\* a mutant of GetNumIOComponents: `result = ` for `result += `
GetNumIOComponents_assign(c) ==
    /\ ~aborted
    /\ \/ /\ pc[c].op = "idle"
          /\ pc' = [pc EXCEPT ![c] = [Idle EXCEPT !.op = "GetNumIOComponents"]]
          /\ UNCHANGED last
       \/ /\ pc[c].op = "GetNumIOComponents"
          /\ LET t == pc[c].i
                 result == W_GetNumIOComponents(t)
                 visited == Append(pc[c].visited, t)
             IN  IF t + 1 < nthreads
                 THEN /\ pc' = [pc EXCEPT ![c] = [@ EXCEPT !.i = t + 1, !.acc = result,
                                                           !.visited = visited]]
                      /\ UNCHANGED last
                 ELSE /\ pc' = [pc EXCEPT ![c] = Idle]
                      /\ last' = [Return("GetNumIOComponents", result, visited, << >>)
                                     EXCEPT !.quiet = pc[c].quiet]
    /\ UNCHANGED <<facadeVars, cfgVars, picked, ioVars, tuneVars, lifeVars, resolveVars>>

\* FNET_Transport::GetNumIOComponents: the entry (result = 0), then one
\* iteration of the loop per step; the last iteration returns result.  The
\* uint32_t result wraps at 2^32, which at most MaxComps components cannot
\* reach, so the sum is kept as it is
GetNumIOComponents(c) ==
    /\ ~aborted
    /\ \/ /\ pc[c].op = "idle"
          /\ pc' = [pc EXCEPT ![c] = [Idle EXCEPT !.op = "GetNumIOComponents"]]
          /\ UNCHANGED last
       \/ /\ pc[c].op = "GetNumIOComponents"
          /\ LET t == pc[c].i
                 result == pc[c].acc + W_GetNumIOComponents(t)
                 visited == Append(pc[c].visited, t)
             IN  IF t + 1 < nthreads
                 THEN /\ pc' = [pc EXCEPT ![c] = [@ EXCEPT !.i = t + 1, !.acc = result,
                                                           !.visited = visited]]
                      /\ UNCHANGED last
                 ELSE /\ pc' = [pc EXCEPT ![c] = Idle]
                      /\ last' = [Return("GetNumIOComponents", result, visited, << >>)
                                     EXCEPT !.quiet = pc[c].quiet]
    /\ UNCHANGED <<facadeVars, cfgVars, picked, ioVars, tuneVars, lifeVars, resolveVars>>

\* the endpoint operations and the router
NextRouter ==
    \E c \in Callers :
        \/ Listen(c)
        \/ Connect(c)
        \/ Add(c)
        \/ EnableRead(c)
        \/ DisableRead(c)
        \/ EnableWrite(c)
        \/ DisableWrite(c)
        \/ Close(c)
SpecRouter == Init /\ [][NextRouter]_vars

\* the operations that change the workers' component counts, and the sum;
\* two GetNumIOComponents calls only read and do not affect each other, so
\* one is in progress at a time while the other callers create and close
NextCount ==
    \E c \in Callers :
        \/ Listen(c)
        \/ Connect(c)
        \/ Close(c)
        \/ Alone(c) /\ GetNumIOComponents(c)
SpecCount == Init /\ [][NextCount]_vars

\* C2: Add, EnableRead, DisableRead, EnableWrite, DisableWrite and Close on a
\* component are each delivered to exactly one worker, the component's
\* Owner(), whatever spec the component was created from and whichever
\* caller thread makes the call.
C2_RoutedToOwner ==
    last.op \in RouterOps => last.visited = <<ioc[last.val].owner>>

\* an EnableRead has reached an owner that is not the first worker, while
\* the selector could have picked another worker
C2_Witness ==
    /\ last.op = "EnableRead"
    /\ ioc[last.val].owner # 0
    /\ last.visited = <<ioc[last.val].owner>>
    /\ Selectable # {ioc[last.val].owner}

\* C3: every live component created by Listen or Connect has Owner() equal
\* to the worker select_thread returned in the creating call, and no later
\* facade call changes the owner of a component.
C3_OwnerIsSelected ==
    /\ [](\A k \in LiveComps : ioc[k].owner = chosenFor[k])
    /\ [][\A k \in Comps : ioc'[k].owner = ioc[k].owner]_vars

\* two live components with different owners exist, and a router call and
\* further Listen/Connect calls have been made since the first was created
C3_Witness ==
    /\ Len(ioc) = 2
    /\ LiveComps = {1, 2}
    /\ ioc[1].owner # ioc[2].owner
    /\ ioc[1].owner = chosenFor[1]
    /\ last.op = "DisableWrite"
    /\ last.val = 1

\* the sum of the component counts of the workers 0 .. n - 1
RECURSIVE SumCounts(_)
SumCounts(n) == IF n = 0 THEN 0 ELSE SumCounts(n - 1) + Cardinality(wcomps[n - 1])

\* C8: when no Listen, Connect or Close runs during the call,
\* GetNumIOComponents returns the sum of the workers' own component counts
\* (the counts of the model stay far below 2^32, so the uint32 sum does not
\* wrap), and no step of it changes a worker's state.
C8_SumOfCounts ==
    /\ []((last.op = "GetNumIOComponents" /\ last.quiet) => last.val = SumCounts(nthreads))
    /\ [][\A c \in Callers :
             (pc[c].op = "GetNumIOComponents" /\ pc'[c].i # pc[c].i)
                 => (wcomps' = wcomps /\ ioc' = ioc)]_vars

\* an undisturbed call has summed two components held by different workers
C8_Witness ==
    /\ last.op = "GetNumIOComponents"
    /\ last.quiet
    /\ last.val = 2
    /\ \E t \in Threads : Cardinality(wcomps[t]) = 1
    /\ Len(last.visited) = MaxThreads

\* a step in which a Listen or a Connect call returns
EndpointReturns ==
    /\ last'.op \in {"Listen", "Connect"}
    /\ last' # last \/ ioc' # ioc

\* C13: Listen and Connect forward to exactly one worker, one the selector
\* can return for a spec, and return that worker's result unchanged; when
\* the worker returns null the facade returns null, tries no other worker
\* and no component appears on any worker; a component that is returned
\* has been created on the called worker only.
C13_EndpointOneWorker ==
    /\ [](last.op \in {"Listen", "Connect"} =>
            /\ Len(last.visited) = 1
            /\ last.visited[1] \in Selectable
            /\ last.res = <<last.val>>)
    /\ [][EndpointReturns =>
            LET t == last'.visited[1]
            IN  IF last'.val = 0
                THEN ioc' = ioc /\ wcomps' = wcomps
                ELSE /\ last'.val = Len(ioc) + 1
                     /\ ioc' = Append(ioc, [owner |-> t, live |-> TRUE])
                     /\ wcomps'[t] = wcomps[t] \cup {last'.val}
                     /\ \A u \in Threads \ {t} : wcomps'[u] = wcomps[u]]_vars

\* a Connect returned null from its worker although another worker could
\* have been selected and a component could still have been created
C13_Witness ==
    /\ last.op = "Connect"
    /\ last.val = 0
    /\ last.visited # <<0>>
    /\ nthreads >= 2
    /\ Selectable # {last.visited[1]}
    /\ Len(ioc) < MaxComps
    /\ \A t \in Threads : wcomps[t] = {}

(* ------------------------------- tuning -------------------------------- *)
UInt32s == 0..MaxVal
SetterOps == {"SetIOCTimeOut", "SetMaxInputBufferSize", "SetMaxOutputBufferSize",
              "SetDirectWrite", "SetTCPNoDelay", "SetLogStats"}
Settings == DOMAIN W_DefaultConfig

\* FNET_TransportThread::SetIOCTimeOut .. SetLogStats on worker t: its
\* settings afterwards
W_Set(t, setting, v) == [wconfig[t] EXCEPT ![setting] = v]

\* the entry of a broadcast method with argument v
Enter(c, op, v) ==
    /\ ~aborted
    /\ pc[c].op = "idle"
    /\ pc' = [pc EXCEPT ![c] = [Idle EXCEPT !.op = op, !.acc = v]]
    /\ UNCHANGED <<facadeVars, cfgVars, picked, last, ioVars, tuneVars, lifeVars, resolveVars>>

\* one iteration of `for (const auto &thread: _threads) thread->Set...(v)`;
\* the method returns after the last one
SetOnNext(c, op, setting) ==
    /\ ~aborted
    /\ pc[c].op = op
    /\ LET t == pc[c].i
           visited == Append(pc[c].visited, t)
       IN  /\ wconfig' = [wconfig EXCEPT ![t] = W_Set(t, setting, pc[c].acc)]
           /\ IF t + 1 < nthreads
              THEN /\ pc' = [pc EXCEPT ![c] = [@ EXCEPT !.i = t + 1, !.visited = visited]]
                   /\ UNCHANGED last
              ELSE /\ pc' = [pc EXCEPT ![c] = Idle]
                   /\ last' = Return(op, pc[c].acc, visited, << >>)
    /\ UNCHANGED <<facadeVars, cfgVars, picked, ioVars, lifeVars, resolveVars>>

\* a mutant of SetIOCTimeOut: the loop ends after the first worker
SetIOCTimeOut_first_only(c) ==
    \/ \E ms \in UInt32s : Enter(c, "SetIOCTimeOut", ms)
    \/ /\ ~aborted
       /\ pc[c].op = "SetIOCTimeOut"
       /\ wconfig' = [wconfig EXCEPT ![pc[c].i] = W_Set(pc[c].i, "iocTimeOut", pc[c].acc)]
       /\ pc' = [pc EXCEPT ![c] = Idle]
       /\ last' = Return("SetIOCTimeOut", pc[c].acc, <<pc[c].i>>, << >>)
       /\ UNCHANGED <<facadeVars, cfgVars, picked, ioVars, lifeVars, resolveVars>>

\* FNET_Transport::SetIOCTimeOut
SetIOCTimeOut(c) ==
    \/ \E ms \in UInt32s : Enter(c, "SetIOCTimeOut", ms)
    \/ SetOnNext(c, "SetIOCTimeOut", "iocTimeOut")

\* FNET_Transport::SetMaxInputBufferSize
SetMaxInputBufferSize(c) ==
    \/ \E bytes \in UInt32s : Enter(c, "SetMaxInputBufferSize", bytes)
    \/ SetOnNext(c, "SetMaxInputBufferSize", "maxInputBufferSize")

\* a mutant of SetMaxOutputBufferSize: it calls the workers'
\* SetMaxInputBufferSize
SetMaxOutputBufferSize_sets_input(c) ==
    \/ \E bytes \in UInt32s : Enter(c, "SetMaxOutputBufferSize", bytes)
    \/ SetOnNext(c, "SetMaxOutputBufferSize", "maxInputBufferSize")

\* FNET_Transport::SetMaxOutputBufferSize
SetMaxOutputBufferSize(c) ==
    \/ \E bytes \in UInt32s : Enter(c, "SetMaxOutputBufferSize", bytes)
    \/ SetOnNext(c, "SetMaxOutputBufferSize", "maxOutputBufferSize")

\* FNET_Transport::SetDirectWrite
SetDirectWrite(c) ==
    \/ \E directWrite \in BOOLEAN : Enter(c, "SetDirectWrite", directWrite)
    \/ SetOnNext(c, "SetDirectWrite", "directWrite")

\* FNET_Transport::SetTCPNoDelay
SetTCPNoDelay(c) ==
    \/ \E noDelay \in BOOLEAN : Enter(c, "SetTCPNoDelay", noDelay)
    \/ SetOnNext(c, "SetTCPNoDelay", "tcpNoDelay")

\* FNET_Transport::SetLogStats
SetLogStats(c) ==
    \/ \E logStats \in BOOLEAN : Enter(c, "SetLogStats", logStats)
    \/ SetOnNext(c, "SetLogStats", "logStats")

\* the worker setting that each setter of the facade is named after
SettingOf(op) ==
    CASE op = "SetIOCTimeOut"          -> "iocTimeOut"
      [] op = "SetMaxInputBufferSize"  -> "maxInputBufferSize"
      [] op = "SetMaxOutputBufferSize" -> "maxOutputBufferSize"
      [] op = "SetDirectWrite"         -> "directWrite"
      [] op = "SetTCPNoDelay"          -> "tcpNoDelay"
      [] op = "SetLogStats"            -> "logStats"

\* the tuning setters, called one at a time (no setter call overlaps another)
NextTune ==
    \E c \in Callers :
        \/ Alone(c) /\ SetIOCTimeOut(c)
        \/ Alone(c) /\ SetMaxInputBufferSize(c)
        \/ Alone(c) /\ SetMaxOutputBufferSize(c)
        \/ Alone(c) /\ SetDirectWrite(c)
        \/ Alone(c) /\ SetTCPNoDelay(c)
        \/ Alone(c) /\ SetLogStats(c)
SpecTune == Init /\ [][NextTune]_vars

\* C7: a tuning setter called with v while no other setter call runs leaves
\* every worker holding v for its setting when it returns, and no step of
\* it changes another setting of any worker.
C7_SetterBroadcasts ==
    /\ []((last.op \in SetterOps /\ \A c \in Callers : pc[c].op = "idle")
            => \A t \in Threads : wconfig[t][SettingOf(last.op)] = last.val)
    /\ [][\A c \in Callers :
             pc[c].op \in SetterOps
                 => \A t \in Threads : \A f \in Settings \ {SettingOf(pc[c].op)} :
                        wconfig'[t][f] = wconfig[t][f]]_vars

\* SetMaxOutputBufferSize(MaxVal) has returned on the largest pool while the
\* workers hold other values for the other buffer size and the timeout
C7_Witness ==
    /\ last.op = "SetMaxOutputBufferSize"
    /\ last.val = MaxVal
    /\ \A c \in Callers : pc[c].op = "idle"
    /\ nthreads = MaxThreads
    /\ \A t \in Threads :
          /\ wconfig[t].maxOutputBufferSize = MaxVal
          /\ wconfig[t].maxInputBufferSize = 0
          /\ wconfig[t].iocTimeOut = MaxVal
          /\ wconfig[t].tcpNoDelay

\* the two callers of a race
RaceCallers == {1, 2}

\* two callers call setters concurrently: nothing orders the steps of their
\* loops; a call begins only while no call has returned, so that the calls
\* of a behaviour overlap
NextRace ==
    \E c \in RaceCallers :
        \/ (pc[c].op = "idle" => last.op = "none") /\ SetIOCTimeOut(c)
        \/ (pc[c].op = "idle" => last.op = "none") /\ SetTCPNoDelay(c)
SpecRace == Init /\ [][NextRace]_vars

\* C20: concurrent calls of one setter are not serialised, but each worker
\* ends with one of the values passed: a step changes a worker's setting
\* only to the value of a call of that setter standing at that worker, and
\* when the second of two overlapping calls of one setter returns, called
\* with a and b, every worker holds a or b for that setting.
C20_RaceKeepsPassedValues ==
    /\ [][\A t \in Threads : \A f \in Settings :
            wconfig'[t][f] # wconfig[t][f] =>
                \E c \in Callers :
                    /\ pc[c].op \in SetterOps
                    /\ SettingOf(pc[c].op) = f
                    /\ pc[c].i = t
                    /\ wconfig'[t][f] = pc[c].acc]_vars
    /\ [][\A d \in Callers :
            (pc[d].op \in SetterOps /\ pc'[d].op = "idle" /\ last.op = pc[d].op) =>
                \A t \in Threads :
                    wconfig'[t][SettingOf(pc[d].op)] \in {last.val, pc[d].acc}]_vars
    /\ [][\A d \in Callers :
            (pc[d].op \in SetterOps /\ pc'[d].op = "idle" /\ last.op = "none"
                /\ \A e \in Callers \ {d} : pc[e].op # pc[d].op) =>
                \A t \in Threads :
                    wconfig'[t][SettingOf(pc[d].op)] = pc[d].acc]_vars

\* two overlapping SetIOCTimeOut calls have both returned and the workers
\* are left with different values: the last with the value of the call
\* that returned last, the first with the value of the other call
C20_Witness ==
    /\ nthreads >= 2
    /\ \A c \in Callers : pc[c].op = "idle"
    /\ last.op = "SetIOCTimeOut"
    /\ wconfig[nthreads - 1].iocTimeOut = last.val
    /\ wconfig[0].iocTimeOut # last.val

(* ------------------------------ lifecycle ------------------------------ *)
\* the workers in index order: <<0, 1, .., n - 1>>
IndexSeq(n) == [k \in 1..n |-> k - 1]

\* the workers select_thread(nullptr, 0) can return, over the salts of a call
SentinelSelectableBySize ==
    [size \in 1..MaxThreads |->
        { select_thread(size, SentinelKey, self, now) : self \in Addrs, now \in Times }]
SentinelSelectable == SentinelSelectableBySize[nthreads]

\* the end of one iteration of a loop over _threads: on to the next worker,
\* or the return of the method after the last one
Advance(c, op, val, visited, res) ==
    IF pc[c].i + 1 < nthreads
    THEN /\ pc' = [pc EXCEPT ![c] = [@ EXCEPT !.i = @ + 1, !.phase = "call", !.acc = val,
                                              !.visited = visited, !.res = res]]
         /\ UNCHANGED last
    ELSE /\ pc' = [pc EXCEPT ![c] = Idle]
         /\ last' = Return(op, val, visited, res)
Returns(c) == pc[c].i + 1 >= nthreads

\* FNET_TransportThread::Start on worker t, returning ok: the state of the
\* worker afterwards (a worker whose thread was started runs its event loop)
W_Start(t, ok) == IF ok /\ wstate[t] = "created" THEN "running" ELSE wstate[t]

\* a mutant of Start: `result = result && thread->Start(pool)`, which starts
\* no worker after a failure
Start_short_circuit(c) ==
    \/ Enter(c, "Start", TRUE)
    \/ /\ ~aborted
       /\ pc[c].op = "Start"
       /\ LET t == pc[c].i IN
          IF pc[c].acc
          THEN \E ok \in BOOLEAN :
                /\ wstate' = [wstate EXCEPT ![t] = W_Start(t, ok)]
                /\ Advance(c, "Start", pc[c].acc /\ ok,
                           Append(pc[c].visited, t), Append(pc[c].res, ok))
                /\ life' = IF Returns(c) /\ pc[c].acc /\ ok /\ life = "new"
                           THEN "started" ELSE life
          ELSE /\ Advance(c, "Start", FALSE, pc[c].visited, pc[c].res)
               /\ UNCHANGED <<wstate, life>>
       /\ UNCHANGED <<facadeVars, cfgVars, picked, ioVars, tuneVars, wshut, wqueue, executed, nextExe, resolveVars>>

\* FNET_Transport::Start: result = true, then per worker
\* result &= thread->Start(pool); the last iteration returns result
Start(c) ==
    \/ Enter(c, "Start", TRUE)
    \/ /\ ~aborted
       /\ pc[c].op = "Start"
       /\ LET t == pc[c].i IN
          \E ok \in BOOLEAN :
             /\ wstate' = [wstate EXCEPT ![t] = W_Start(t, ok)]
             /\ Advance(c, "Start", pc[c].acc /\ ok,
                        Append(pc[c].visited, t), Append(pc[c].res, ok))
             /\ life' = IF Returns(c) /\ pc[c].acc /\ ok /\ life = "new"
                        THEN "started" ELSE life
       /\ UNCHANGED <<facadeVars, cfgVars, picked, ioVars, tuneVars, wshut, wqueue, executed, nextExe, resolveVars>>

\* a mutant of ShutDown: every worker is signalled without waiting for the
\* one before it to finish
ShutDown_no_wait_between(c) ==
    \/ \E waitFinished \in BOOLEAN : Enter(c, "ShutDown", waitFinished)
    \/ /\ ~aborted
       /\ pc[c].op = "ShutDown"
       /\ pc[c].phase = "call"
       /\ LET t == pc[c].i IN
          /\ wshut' = [wshut EXCEPT ![t] = TRUE]
          /\ Advance(c, "ShutDown", pc[c].acc, Append(pc[c].visited, t), pc[c].res)
          /\ UNCHANGED life
       /\ UNCHANGED <<facadeVars, cfgVars, picked, ioVars, tuneVars, wstate, wqueue, executed, nextExe, resolveVars>>

\* FNET_Transport::ShutDown: per worker thread->ShutDown(waitFinished), which
\* signals the worker and, with waitFinished, blocks until it has finished
ShutDown(c) ==
    \/ \E waitFinished \in BOOLEAN : Enter(c, "ShutDown", waitFinished)
    \/ /\ ~aborted
       /\ pc[c].op = "ShutDown"
       /\ pc[c].phase = "call"
       /\ LET t == pc[c].i IN
          /\ wshut' = [wshut EXCEPT ![t] = TRUE]
          /\ IF pc[c].acc
             THEN /\ pc' = [pc EXCEPT ![c] = [@ EXCEPT !.phase = "wait"]]
                  /\ UNCHANGED <<last, life>>
             ELSE /\ Advance(c, "ShutDown", pc[c].acc, Append(pc[c].visited, t), pc[c].res)
                  /\ UNCHANGED life
       /\ UNCHANGED <<facadeVars, cfgVars, picked, ioVars, tuneVars, wstate, wqueue, executed, nextExe, resolveVars>>
    \/ /\ ~aborted
       /\ pc[c].op = "ShutDown"
       /\ pc[c].phase = "wait"
       /\ wstate[pc[c].i] = "finished"
       /\ Advance(c, "ShutDown", pc[c].acc, Append(pc[c].visited, pc[c].i), pc[c].res)
       /\ life' = IF Returns(c) /\ life = "started" THEN "shutdown" ELSE life
       /\ UNCHANGED <<facadeVars, cfgVars, picked, ioVars, tuneVars, wstate, wshut, wqueue,
                      executed, nextExe, resolveVars>>

\* FNET_Transport::WaitFinished: per worker thread->WaitFinished(), which
\* blocks until the worker has finished
WaitFinished(c) ==
    \/ Enter(c, "WaitFinished", TRUE)
    \/ /\ ~aborted
       /\ pc[c].op = "WaitFinished"
       /\ wstate[pc[c].i] = "finished"
       /\ Advance(c, "WaitFinished", TRUE, Append(pc[c].visited, pc[c].i), pc[c].res)
       /\ life' = IF Returns(c) /\ life = "shutdown" THEN "joined" ELSE life
       /\ UNCHANGED <<facadeVars, cfgVars, picked, ioVars, tuneVars, wstate, wshut, wqueue,
                      executed, nextExe, resolveVars>>

\* a mutant of sync: only the first worker is synced
sync_first_only(c) ==
    \/ Enter(c, "sync", nextExe)
    \/ /\ ~aborted
       /\ pc[c].op = "sync"
       /\ pc[c].phase = "call"
       /\ wqueue' = [wqueue EXCEPT ![pc[c].i] = Append(@, [kind |-> "sync", id |-> c])]
       /\ pc' = [pc EXCEPT ![c] = [@ EXCEPT !.phase = "wait"]]
       /\ UNCHANGED <<facadeVars, cfgVars, picked, last, ioVars, tuneVars, wstate, wshut,
                      executed, nextExe, life, resolveVars>>
    \/ /\ ~aborted
       /\ pc[c].op = "sync"
       /\ pc[c].phase = "wait"
       /\ \A k \in 1..Len(wqueue[pc[c].i]) : wqueue[pc[c].i][k] # [kind |-> "sync", id |-> c]
       /\ pc' = [pc EXCEPT ![c] = Idle]
       /\ last' = Return("sync", pc[c].acc, Append(pc[c].visited, pc[c].i), pc[c].res)
       /\ UNCHANGED <<facadeVars, cfgVars, picked, ioVars, tuneVars, lifeVars, resolveVars>>

\* FNET_Transport::sync: per worker thread->sync(), which puts a round-trip
\* marker in the worker's queue and blocks until the worker has processed
\* it; acc keeps the number of executables accepted before the call
sync(c) ==
    \/ Enter(c, "sync", nextExe)
    \/ /\ ~aborted
       /\ pc[c].op = "sync"
       /\ pc[c].phase = "call"
       /\ wqueue' = [wqueue EXCEPT ![pc[c].i] = Append(@, [kind |-> "sync", id |-> c])]
       /\ pc' = [pc EXCEPT ![c] = [@ EXCEPT !.phase = "wait"]]
       /\ UNCHANGED <<facadeVars, cfgVars, picked, last, ioVars, tuneVars, wstate, wshut,
                      executed, nextExe, life, resolveVars>>
    \/ /\ ~aborted
       /\ pc[c].op = "sync"
       /\ pc[c].phase = "wait"
       /\ \A k \in 1..Len(wqueue[pc[c].i]) : wqueue[pc[c].i][k] # [kind |-> "sync", id |-> c]
       /\ Advance(c, "sync", pc[c].acc, Append(pc[c].visited, pc[c].i), pc[c].res)
       /\ UNCHANGED <<facadeVars, cfgVars, picked, ioVars, tuneVars, lifeVars, resolveVars>>

\* a mutant of execute: the worker's verdict is dropped and true returned
execute_returns_true(c) ==
    /\ ~aborted
    /\ pc[c].op = "idle"
    /\ \E t \in SentinelSelectable :
          IF ~wshut[t]
          THEN /\ nextExe < MaxExe
               /\ nextExe' = nextExe + 1
               /\ wqueue' = [wqueue EXCEPT ![t] = Append(@, [kind |-> "exe", id |-> nextExe + 1])]
               /\ last' = Return("execute", TRUE, <<t>>, <<TRUE>>)
          ELSE /\ UNCHANGED <<nextExe, wqueue>>
               /\ last' = Return("execute", TRUE, <<t>>, <<FALSE>>)
    /\ UNCHANGED <<facadeVars, cfgVars, picked, pc, ioVars, tuneVars, wstate, wshut, executed, life, resolveVars>>

\* a mutant of execute: an executable the chosen worker rejects is offered
\* to another worker
execute_retries(c) ==
    /\ ~aborted
    /\ pc[c].op = "idle"
    /\ \E t \in SentinelSelectable :
          IF ~wshut[t]
          THEN /\ nextExe < MaxExe
               /\ nextExe' = nextExe + 1
               /\ wqueue' = [wqueue EXCEPT ![t] = Append(@, [kind |-> "exe", id |-> nextExe + 1])]
               /\ last' = Return("execute", TRUE, <<t>>, <<TRUE>>)
          ELSE IF (\E u \in Threads : ~wshut[u]) /\ nextExe < MaxExe
               THEN \E u \in { w \in Threads : ~wshut[w] } :
                       /\ nextExe' = nextExe + 1
                       /\ wqueue' = [wqueue EXCEPT ![u] = Append(@, [kind |-> "exe", id |-> nextExe + 1])]
                       /\ last' = Return("execute", TRUE, <<t, u>>, <<FALSE, TRUE>>)
               ELSE /\ UNCHANGED <<nextExe, wqueue>>
                    /\ last' = Return("execute", FALSE, <<t>>, <<FALSE>>)
    /\ UNCHANGED <<facadeVars, cfgVars, picked, pc, ioVars, tuneVars, wstate, wshut, executed, life, resolveVars>>

\* FNET_Transport::execute: select_thread(nullptr, 0)->execute(exe); the
\* worker takes the executable into its queue unless it has been shut down
execute(c) ==
    /\ ~aborted
    /\ pc[c].op = "idle"
    /\ \E t \in SentinelSelectable :
          IF ~wshut[t]
          THEN /\ nextExe < MaxExe
               /\ nextExe' = nextExe + 1
               /\ wqueue' = [wqueue EXCEPT ![t] = Append(@, [kind |-> "exe", id |-> nextExe + 1])]
               /\ last' = Return("execute", TRUE, <<t>>, <<TRUE>>)
          ELSE /\ UNCHANGED <<nextExe, wqueue>>
               /\ last' = Return("execute", FALSE, <<t>>, <<FALSE>>)
    /\ UNCHANGED <<facadeVars, cfgVars, picked, pc, ioVars, tuneVars, wstate, wshut, executed, life, resolveVars>>

\* the executables among the events q, and the callers whose markers are in q
ExesIn(q) == { q[k].id : k \in { j \in 1..Len(q) : q[j].kind = "exe" } }
SyncsIn(q) == { q[k].id : k \in { j \in 1..Len(q) : q[j].kind = "sync" } }

\* worker t has handled the events evs: the callers whose sync markers are
\* among them have their acknowledgement
AckedBy(t, evs) ==
    [c \in Callers |->
        IF c \in SyncsIn(evs) THEN [pc[c] EXCEPT !.res = Append(@, t)] ELSE pc[c]]

\* the event loop of worker t handles the oldest event of its queue
W_Run(t) ==
    /\ ~aborted
    /\ t \in Threads
    /\ wstate[t] = "running"
    /\ ~wshut[t]
    /\ wqueue[t] # << >>
    /\ wqueue' = [wqueue EXCEPT ![t] = Tail(@)]
    /\ executed' = executed \cup ExesIn(<<Head(wqueue[t])>>)
    /\ pc' = AckedBy(t, <<Head(wqueue[t])>>)
    /\ UNCHANGED <<facadeVars, cfgVars, picked, last, ioVars, tuneVars, wstate, wshut, nextExe, life, resolveVars>>

\* the event loop of worker t, shut down, handles what is left in its queue
\* and ends
W_Finish(t) ==
    /\ ~aborted
    /\ t \in Threads
    /\ wstate[t] = "running"
    /\ wshut[t]
    /\ wqueue' = [wqueue EXCEPT ![t] = << >>]
    /\ executed' = executed \cup ExesIn(wqueue[t])
    /\ pc' = AckedBy(t, wqueue[t])
    /\ wstate' = [wstate EXCEPT ![t] = "finished"]
    /\ UNCHANGED <<facadeVars, cfgVars, picked, last, ioVars, tuneVars, wshut, nextExe, life, resolveVars>>

\* Start is called while no worker has been started
NotStarted == \A t \in Threads : wstate[t] = "created"

\* the lifecycle: one broadcast call at a time, with execute calls and the
\* workers' event loops running in between its steps
NextLife ==
    \/ \E c \in Callers :
          \/ Alone(c) /\ (pc[c].op = "idle" => NotStarted) /\ Start(c)
          \/ Alone(c) /\ ShutDown(c)
          \/ Alone(c) /\ WaitFinished(c)
          \/ Alone(c) /\ sync(c)
          \/ execute(c)
    \/ \E t \in 0..(MaxThreads - 1) : W_Run(t) \/ W_Finish(t)
SpecLife == Init /\ [][NextLife]_vars

\* C4: Start calls Start on every worker exactly once, in index order,
\* whatever the earlier workers returned, and returns true exactly when
\* every worker's Start returned true.
C4_StartsAll ==
    last.op = "Start" =>
        /\ last.visited = IndexSeq(nthreads)
        /\ Len(last.res) = nthreads
        /\ last.val = (\A k \in 1..nthreads : last.res[k])

\* of three workers the second failed to start: Start returned false and
\* the first and the third run
C4_Witness ==
    /\ last.op = "Start"
    /\ nthreads = 3
    /\ last.res = <<TRUE, FALSE, TRUE>>
    /\ last.val = FALSE
    /\ wstate = [t \in Threads |-> IF t = 1 THEN "created" ELSE "running"]

\* C5: once a successful Start, then ShutDown(true), then WaitFinished have
\* returned, every worker has finished and every later execute returns
\* false, whichever worker the selector picks.
C5_TerminatedRejects ==
    life = "joined" =>
        /\ \A t \in Threads : wstate[t] = "finished"
        /\ (last.op = "execute" => last.val = FALSE)

\* after the three calls an execute was tried on the last of the workers
C5_Witness ==
    /\ life = "joined"
    /\ nthreads = MaxThreads
    /\ last.op = "execute"
    /\ last.visited = <<nthreads - 1>>
    /\ \A t \in Threads : wstate[t] = "finished"


\* C9: sync returns only after every worker has processed the marker of
\* this call, worker by worker in index order, and every executable that a
\* worker had accepted before sync was called has been run by then.
C9_SyncDrains ==
    last.op = "sync" =>
        /\ last.visited = IndexSeq(nthreads)
        /\ last.res = IndexSeq(nthreads)
        /\ \A id \in 1..last.val : id \in executed

\* a sync on the largest pool has returned, called after MaxExe executables
\* had been accepted
C9_Witness ==
    /\ last.op = "sync"
    /\ nthreads = MaxThreads
    /\ last.val = MaxExe
    /\ executed = 1..MaxExe
    /\ last.res = IndexSeq(nthreads)

\* C11: construction with num_threads < 1 fails on the assert and creates
\* no worker; with num_threads >= 1 it creates exactly num_threads workers,
\* indexed 0..num_threads-1, before any operation runs; no facade operation
\* changes the number of workers or their indices afterwards.
C11_WorkersFixed ==
    /\ [](requested < 1 =>
            /\ aborted
            /\ nthreads = 0
            /\ DOMAIN wstate = {}
            /\ last = NoCall)
    /\ [](requested >= 1 =>
            /\ nthreads = requested
            /\ DOMAIN wstate = 0..(requested - 1)
            /\ DOMAIN wshut = 0..(requested - 1)
            /\ DOMAIN wqueue = 0..(requested - 1)
            /\ DOMAIN wconfig = 0..(requested - 1)
            /\ DOMAIN wcomps = 0..(requested - 1))
    /\ [][requested' = requested /\ nthreads' = nthreads]_vars

\* the constructor was called with no threads: the assert has failed and
\* there is no worker
C11_Witness ==
    /\ requested = 0
    /\ aborted
    /\ nthreads = 0
    /\ wstate = << >>

\* a step in which an execute call returns
ExecuteReturns ==
    /\ last'.op = "execute"
    /\ last' # last \/ nextExe' # nextExe

\* C12: execute hands the executable to exactly one worker, one the
\* selector can return for the sentinel key, and returns that worker's
\* verdict unchanged: false when the worker has been shut down, and then no
\* other worker is offered the executable (no queue changes).
C12_ExecuteOneWorker ==
    /\ [](last.op = "execute" =>
            /\ Len(last.visited) = 1
            /\ last.visited[1] \in SentinelSelectable
            /\ last.res = <<last.val>>)
    /\ [][ExecuteReturns =>
            LET t == last'.visited[1]
            IN  /\ last'.val = (~wshut[t])
                /\ \A u \in Threads \ {t} : wqueue'[u] = wqueue[u]
                /\ wshut[t] => wqueue' = wqueue /\ nextExe' = nextExe
                /\ ~wshut[t] =>
                      wqueue'[t] = Append(wqueue[t], [kind |-> "exe", id |-> nextExe'])]_vars

\* execute returned false from a worker that is shut down while another
\* worker would still have taken the executable
C12_Witness ==
    /\ last.op = "execute"
    /\ last.val = FALSE
    /\ wshut[last.visited[1]]
    /\ \E u \in Threads : ~wshut[u]
    /\ nextExe < MaxExe

(* --------------------------- single-thread mode ------------------------ *)
SingleOps == {"GetTimeSampler", "InitEventLoop", "EventLoopIteration", "Main"}

\* assert(_threads.size() == 1) fails: the process is gone and the call has
\* reached no worker
AssertFails(op) ==
    /\ ~aborted
    /\ ~(nthreads = 1)
    /\ aborted' = TRUE
    /\ last' = Return(op, "assert", << >>, << >>)
    /\ UNCHANGED <<nthreads, requested, cfgVars, picked, pc, ioVars, tuneVars, lifeVars, resolveVars>>

\* FNET_TransportThread::InitEventLoop on worker t: the results it can
\* return (only a worker that has not run yet can succeed)
W_InitEventLoopResults(t) == IF wstate[t] = "created" THEN BOOLEAN ELSE {FALSE}

\* FNET_TransportThread::EventLoopIteration on worker t, run by the calling
\* thread: a worker that is shut down handles what is left and ends
\* (false); a running worker handles the oldest event, if any (true); a
\* worker whose loop is not running does nothing (false)
W_EventLoopIteration(t) ==
    LET evs == IF wstate[t] # "running" THEN << >>
               ELSE IF wshut[t] THEN wqueue[t]
               ELSE IF wqueue[t] = << >> THEN << >> ELSE <<Head(wqueue[t])>>
    IN  [result  |-> wstate[t] = "running" /\ ~wshut[t],
         events  |-> evs,
         queue   |-> IF wstate[t] # "running" THEN wqueue[t]
                     ELSE IF wshut[t] \/ wqueue[t] = << >> THEN << >> ELSE Tail(wqueue[t]),
         state   |-> IF wstate[t] = "running" /\ wshut[t] THEN "finished" ELSE wstate[t]]

\* FNET_Transport::GetTimeSampler
GetTimeSampler(c) ==
    \/ (pc[c].op = "idle" /\ AssertFails("GetTimeSampler"))
    \/ /\ ~aborted
       /\ pc[c].op = "idle"
       /\ nthreads = 1
       /\ last' = Return("GetTimeSampler", [sampler |-> 0], <<0>>, <<[sampler |-> 0]>>)
       /\ UNCHANGED <<facadeVars, cfgVars, picked, pc, ioVars, tuneVars, lifeVars, resolveVars>>

\* a mutant of InitEventLoop: the assert is missing
InitEventLoop_no_assert(c) ==
    /\ ~aborted
    /\ pc[c].op = "idle"
    /\ \E ok \in W_InitEventLoopResults(0) :
          /\ wstate' = [wstate EXCEPT ![0] = IF ok THEN "running" ELSE @]
          /\ last' = Return("InitEventLoop", ok, <<0>>, <<ok>>)
    /\ UNCHANGED <<facadeVars, cfgVars, picked, pc, ioVars, tuneVars, wshut, wqueue,
                   executed, nextExe, life, resolveVars>>

\* FNET_Transport::InitEventLoop
InitEventLoop(c) ==
    \/ (pc[c].op = "idle" /\ AssertFails("InitEventLoop"))
    \/ /\ ~aborted
       /\ pc[c].op = "idle"
       /\ nthreads = 1
       /\ \E ok \in W_InitEventLoopResults(0) :
             /\ wstate' = [wstate EXCEPT ![0] = IF ok THEN "running" ELSE @]
             /\ last' = Return("InitEventLoop", ok, <<0>>, <<ok>>)
       /\ UNCHANGED <<facadeVars, cfgVars, picked, pc, ioVars, tuneVars, wshut, wqueue,
                      executed, nextExe, life, resolveVars>>

\* a mutant of EventLoopIteration: the assert is missing
EventLoopIteration_no_assert(c) ==
    /\ ~aborted
    /\ pc[c].op = "idle"
    /\ LET it == W_EventLoopIteration(0) IN
          /\ wqueue' = [wqueue EXCEPT ![0] = it.queue]
          /\ wstate' = [wstate EXCEPT ![0] = it.state]
          /\ executed' = executed \cup ExesIn(it.events)
          /\ pc' = AckedBy(0, it.events)
          /\ last' = Return("EventLoopIteration", it.result, <<0>>, <<it.result>>)
    /\ UNCHANGED <<facadeVars, cfgVars, picked, ioVars, tuneVars, wshut, nextExe, life, resolveVars>>

\* FNET_Transport::EventLoopIteration
EventLoopIteration(c) ==
    \/ (pc[c].op = "idle" /\ AssertFails("EventLoopIteration"))
    \/ /\ ~aborted
       /\ pc[c].op = "idle"
       /\ nthreads = 1
       /\ LET it == W_EventLoopIteration(0) IN
             /\ wqueue' = [wqueue EXCEPT ![0] = it.queue]
             /\ wstate' = [wstate EXCEPT ![0] = it.state]
             /\ executed' = executed \cup ExesIn(it.events)
             /\ pc' = AckedBy(0, it.events)
             /\ last' = Return("EventLoopIteration", it.result, <<0>>, <<it.result>>)
       /\ UNCHANGED <<facadeVars, cfgVars, picked, ioVars, tuneVars, wshut, nextExe, life, resolveVars>>

\* FNET_Transport::Main: _threads[0]->Main(), which initialises the event
\* loop and iterates it in the calling thread until it ends
Main(c) ==
    \/ (pc[c].op = "idle" /\ AssertFails("Main"))
    \/ /\ ~aborted
       /\ pc[c].op = "idle"
       /\ nthreads = 1
       /\ pc' = [pc EXCEPT ![c] = [Idle EXCEPT !.op = "Main"]]
       /\ UNCHANGED <<facadeVars, cfgVars, picked, last, ioVars, tuneVars, lifeVars, resolveVars>>
    \/ /\ ~aborted
       /\ pc[c].op = "Main"
       /\ pc[c].phase = "call"
       /\ \E ok \in W_InitEventLoopResults(0) :
             /\ wstate' = [wstate EXCEPT ![0] = IF ok THEN "running" ELSE @]
             /\ IF ok
                THEN /\ pc' = [pc EXCEPT ![c] = [@ EXCEPT !.phase = "wait"]]
                     /\ UNCHANGED last
                ELSE /\ pc' = [pc EXCEPT ![c] = Idle]
                     /\ last' = Return("Main", "void", <<0>>, <<"void">>)
       /\ UNCHANGED <<facadeVars, cfgVars, picked, ioVars, tuneVars, wshut, wqueue,
                      executed, nextExe, life, resolveVars>>
    \/ /\ ~aborted
       /\ pc[c].op = "Main"
       /\ pc[c].phase = "wait"
       /\ LET it == W_EventLoopIteration(0) IN
             /\ wqueue' = [wqueue EXCEPT ![0] = it.queue]
             /\ wstate' = [wstate EXCEPT ![0] = it.state]
             /\ executed' = executed \cup ExesIn(it.events)
             /\ IF it.result
                THEN /\ pc' = AckedBy(0, it.events)
                     /\ UNCHANGED last
                ELSE /\ pc' = [AckedBy(0, it.events) EXCEPT ![c] = Idle]
                     /\ last' = Return("Main", "void", <<0>>, <<"void">>)
       /\ UNCHANGED <<facadeVars, cfgVars, picked, ioVars, tuneVars, wshut, nextExe, life, resolveVars>>

\* the single-thread mode: the caller drives the event loop, other callers
\* hand it executables and shut it down
NextSingle ==
    \E c \in Callers :
        \/ GetTimeSampler(c)
        \/ InitEventLoop(c)
        \/ EventLoopIteration(c)
        \/ Main(c)
        \/ execute(c)
        \/ ShutDown(c)
SpecSingle == Init /\ [][NextSingle]_vars

\* C10: GetTimeSampler, InitEventLoop, EventLoopIteration and Main check
\* N = 1 on entry: with N = 1 the call goes to worker 0 and returns its
\* result; with N > 1 the assert fails and the call reaches no worker, so
\* that no event loop is initialised or stepped.
C10_SingleThreadOnly ==
    last.op \in SingleOps =>
        IF nthreads = 1
        THEN /\ ~aborted
             /\ last.visited = <<0>>
             /\ last.res = <<last.val>>
        ELSE /\ aborted
             /\ last.visited = << >>
             /\ \A t \in Threads : wstate[t] = "created"

\* with one worker, an EventLoopIteration has returned true after an
\* executable was run by the loop
C10_Witness ==
    /\ nthreads = 1
    /\ last.op = "EventLoopIteration"
    /\ last.val = TRUE
    /\ executed # {}
    /\ wstate[0] = "running"

\* the methods that loop over _threads calling each worker
BroadcastOps == SetterOps \cup {"sync", "Start", "ShutDown", "WaitFinished"}

\* the broadcast methods, one call at a time, with the workers' event loops
\* running in between the steps of a call; of the six setters, which share
\* one loop, a uint32_t one and a bool one
NextOrder ==
    \/ \E c \in Callers :
          \/ Alone(c) /\ SetIOCTimeOut(c)
          \/ Alone(c) /\ SetTCPNoDelay(c)
          \/ Alone(c) /\ sync(c)
          \/ Alone(c) /\ (pc[c].op = "idle" => NotStarted) /\ Start(c)
          \/ Alone(c) /\ ShutDown(c)
          \/ Alone(c) /\ WaitFinished(c)
    \/ \E t \in 0..(MaxThreads - 1) : W_Run(t) \/ W_Finish(t)
SpecOrder == Init /\ [][NextOrder]_vars

\* C18: a broadcast call (a setter, sync, Start, ShutDown, WaitFinished)
\* calls the workers in ascending index order, one at a time: the call on
\* worker i begins when the calls on workers 0..i-1 have returned, in that
\* order, and a worker is touched only while the loop stands at its index;
\* in ShutDown(true) a worker is signalled only when every worker before it
\* has finished.
C18_AscendingOneAtATime ==
    /\ [](\A c \in Callers :
            pc[c].op \in BroadcastOps =>
                /\ pc[c].i \in Threads
                /\ pc[c].visited = IndexSeq(pc[c].i))
    /\ [](last.op \in BroadcastOps => last.visited = IndexSeq(nthreads))
    /\ [][\A c \in Callers :
            (pc[c].op \in BroadcastOps /\ pc'[c].op = pc[c].op) =>
                pc'[c].i \in {pc[c].i, pc[c].i + 1}]_vars
    /\ [][\A t \in Threads :
            /\ wshut'[t] # wshut[t] =>
                  \E c \in Callers : pc[c].op = "ShutDown" /\ pc[c].i = t
            /\ wconfig'[t] # wconfig[t] =>
                  \E c \in Callers : pc[c].op \in SetterOps /\ pc[c].i = t
            /\ (wstate[t] = "created" /\ wstate'[t] # "created") =>
                  \E c \in Callers : pc[c].op = "Start" /\ pc[c].i = t
            /\ Len(wqueue'[t]) > Len(wqueue[t]) =>
                  \E c \in Callers : pc[c].op = "sync" /\ pc[c].i = t]_vars
    /\ [][\A c \in Callers : \A t \in Threads :
            (pc[c].op = "ShutDown" /\ pc[c].acc /\ ~wshut[t] /\ wshut'[t]) =>
                \A u \in 0..(t - 1) : wstate[u] = "finished"]_vars

\* a ShutDown(true) on three running workers stands at the second: the
\* first has finished, the second is signalled and still runs, the third
\* has not been signalled
C18_Witness ==
    /\ nthreads = 3
    /\ \E c \in Callers :
          /\ pc[c].op = "ShutDown"
          /\ pc[c].acc
          /\ pc[c].i = 1
          /\ pc[c].phase = "wait"
          /\ pc[c].visited = <<0>>
    /\ wstate[0] = "finished" /\ wstate[1] = "running" /\ wstate[2] = "running"
    /\ wshut[0] /\ wshut[1] /\ ~wshut[2]

\* the ways a worker's event loop comes to run: Start on a pool of any
\* size, InitEventLoop and Main in the single-thread mode; ShutDown and the
\* end of a worker's loop in between
NextRun ==
    \/ \E c \in Callers :
          \/ Alone(c) /\ Start(c)
          \/ InitEventLoop(c)
          \/ Main(c)
          \/ Alone(c) /\ ShutDown(c)
    \/ \E t \in 0..(MaxThreads - 1) : W_Finish(t)
SpecRun == Init /\ [][NextRun]_vars

\* C16 as stated: in every reachable state in which some worker runs its
\* event loop, a Start call on the facade has returned true before.
C16_StartSucceededFirst ==
    (\E t \in Threads : wstate[t] = "running") => life # "new"

\* the step makes worker t's Start return true inside caller c's Start call
StartsWorker(c, t) ==
    /\ pc[c].op = "Start"
    /\ pc[c].i = t
    /\ wstate[t] = "created"
    /\ IF pc'[c].op = "Start"
       THEN pc'[c].res = Append(pc[c].res, TRUE)
       ELSE last'.op = "Start" /\ last'.res = Append(pc[c].res, TRUE)

\* the step initialises the loop of the only worker in the calling thread
InitialisesLoop ==
    /\ nthreads = 1
    /\ \/ last'.op = "InitEventLoop" /\ last'.val = TRUE /\ last'.visited = <<0>>
       \/ \E c \in Callers : pc[c].op = "Main" /\ pc[c].phase = "call"

\* C16, amended: a worker's event loop comes to run only in a step of a
\* facade Start call in which that worker's own Start returns true, whether
\* or not the facade's Start has returned or will return true, or, with
\* N = 1, in InitEventLoop or Main, which run worker 0's loop in the caller.
C16_RunsOnlyWhenStarted ==
    [][\A t \in Threads :
          (wstate[t] # "running" /\ wstate'[t] = "running") =>
              \/ \E c \in Callers : StartsWorker(c, t)
              \/ t = 0 /\ InitialisesLoop]_vars

\* Start has returned false on two or more workers: the first runs its
\* loop, the second does not, and no Start has returned true
C16_Witness ==
    /\ last.op = "Start"
    /\ last.val = FALSE
    /\ life = "new"
    /\ nthreads >= 2
    /\ wstate[0] = "running"
    /\ wstate[1] = "created"

(* ------------------------ resolver and teardown ------------------------ *)
Resolves == 1..Len(resolves)
Pending == { r \in Resolves : resolves[r].state = "pending" }

\* a mutant of resolve_async: the facade locks the weak handler and gives the
\* resolver a strong reference, which keeps the handler alive
resolve_async_strong(c) ==
    /\ ~aborted
    /\ dtor = "none"
    /\ pc[c].op = "idle"
    /\ Len(resolves) < MaxResolves
    /\ resolves' = Append(resolves, [handler |-> "held", given |-> "strong",
                                     state |-> "pending"])
    /\ last' = Return("resolve_async", "void", << >>, << >>)
    /\ UNCHANGED <<facadeVars, cfgVars, picked, pc, ioVars, tuneVars, lifeVars, dtor>>

\* FNET_Transport::resolve_async: the (spec, weak handler) pair goes to the
\* resolver unchanged (the weak pointer is moved into the call), which
\* keeps it until the resolution completes
resolve_async(c) ==
    /\ ~aborted
    /\ dtor = "none"
    /\ pc[c].op = "idle"
    /\ Len(resolves) < MaxResolves
    /\ resolves' = Append(resolves, [handler |-> "held", given |-> "weak",
                                     state |-> "pending"])
    /\ last' = Return("resolve_async", "void", << >>, << >>)
    /\ UNCHANGED <<facadeVars, cfgVars, picked, pc, ioVars, tuneVars, lifeVars, dtor>>

\* the owner of the result handler of request r drops it
DropHandler(r) ==
    /\ r \in Resolves
    /\ resolves[r].handler = "held"
    /\ resolves' = [resolves EXCEPT ![r].handler = "dropped"]
    /\ UNCHANGED <<facadeVars, cfgVars, picked, callVars, ioVars, tuneVars, lifeVars, dtor>>

\* the resolver completes request r: it locks the reference it was given;
\* the callback of a handler that is still alive fires, that of a handler
\* that is gone is skipped
R_Complete(r) ==
    /\ r \in Resolves
    /\ resolves[r].state = "pending"
    /\ resolves' = [resolves EXCEPT
                       ![r].state = IF resolves[r].handler = "held"
                                       \/ resolves[r].given = "strong"
                                    THEN "delivered" ELSE "skipped"]
    /\ UNCHANGED <<facadeVars, cfgVars, picked, callVars, ioVars, tuneVars, lifeVars, dtor>>

\* vespalib::AsyncResolver::wait_for_pending_resolves returns
R_NothingPending == Pending = {}

\* a mutant of the destructor: its body is empty
Destroy_no_wait(c) ==
    \/ /\ ~aborted
       /\ dtor = "none"
       /\ pc[c].op = "idle"
       /\ dtor' = "waiting"
       /\ pc' = [pc EXCEPT ![c] = [Idle EXCEPT !.op = "~FNET_Transport"]]
       /\ UNCHANGED <<facadeVars, cfgVars, picked, last, ioVars, tuneVars, lifeVars, resolves>>
    \/ /\ pc[c].op = "~FNET_Transport"
       /\ dtor = "waiting"
       /\ dtor' = "releasing_threads"
       /\ UNCHANGED <<facadeVars, cfgVars, picked, callVars, ioVars, tuneVars, lifeVars, resolves>>
    \/ /\ pc[c].op = "~FNET_Transport"
       /\ dtor = "releasing_threads"
       /\ wstate' = [t \in Threads |-> "destroyed"]
       /\ dtor' = "releasing_resolver"
       /\ UNCHANGED <<facadeVars, cfgVars, picked, callVars, ioVars, tuneVars, wshut, wqueue,
                      executed, nextExe, life, resolves>>
    \/ /\ pc[c].op = "~FNET_Transport"
       /\ dtor = "releasing_resolver"
       /\ dtor' = "done"
       /\ pc' = [pc EXCEPT ![c] = Idle]
       /\ last' = Return("~FNET_Transport", "void", << >>, << >>)
       /\ UNCHANGED <<facadeVars, cfgVars, picked, ioVars, tuneVars, lifeVars, resolves>>

\* a mutant of the destructor: the workers are released at the start of its
\* body, before the wait for the pending resolutions
Destroy_release_first(c) ==
    \/ /\ ~aborted
       /\ dtor = "none"
       /\ pc[c].op = "idle"
       /\ dtor' = "waiting"
       /\ wstate' = [t \in Threads |-> "destroyed"]
       /\ pc' = [pc EXCEPT ![c] = [Idle EXCEPT !.op = "~FNET_Transport"]]
       /\ UNCHANGED <<facadeVars, cfgVars, picked, last, ioVars, tuneVars, wshut, wqueue,
                      executed, nextExe, life, resolves>>
    \/ /\ pc[c].op = "~FNET_Transport"
       /\ dtor = "waiting"
       /\ R_NothingPending
       /\ dtor' = "releasing_resolver"
       /\ UNCHANGED <<facadeVars, cfgVars, picked, callVars, ioVars, tuneVars, lifeVars, resolves>>
    \/ /\ pc[c].op = "~FNET_Transport"
       /\ dtor = "releasing_resolver"
       /\ dtor' = "done"
       /\ pc' = [pc EXCEPT ![c] = Idle]
       /\ last' = Return("~FNET_Transport", "void", << >>, << >>)
       /\ UNCHANGED <<facadeVars, cfgVars, picked, ioVars, tuneVars, lifeVars, resolves>>

\* FNET_Transport::~FNET_Transport: the body blocks in
\* _async_resolver->wait_for_pending_resolves(); then the members go in
\* reverse order of declaration: _threads (the workers), then _async_resolver
Destroy(c) ==
    \/ /\ ~aborted
       /\ dtor = "none"
       /\ pc[c].op = "idle"
       /\ dtor' = "waiting"
       /\ pc' = [pc EXCEPT ![c] = [Idle EXCEPT !.op = "~FNET_Transport"]]
       /\ UNCHANGED <<facadeVars, cfgVars, picked, last, ioVars, tuneVars, lifeVars, resolves>>
    \/ /\ pc[c].op = "~FNET_Transport"
       /\ dtor = "waiting"
       /\ R_NothingPending
       /\ dtor' = "releasing_threads"
       /\ UNCHANGED <<facadeVars, cfgVars, picked, callVars, ioVars, tuneVars, lifeVars, resolves>>
    \/ /\ pc[c].op = "~FNET_Transport"
       /\ dtor = "releasing_threads"
       /\ wstate' = [t \in Threads |-> "destroyed"]
       /\ dtor' = "releasing_resolver"
       /\ UNCHANGED <<facadeVars, cfgVars, picked, callVars, ioVars, tuneVars, wshut, wqueue,
                      executed, nextExe, life, resolves>>
    \/ /\ pc[c].op = "~FNET_Transport"
       /\ dtor = "releasing_resolver"
       /\ dtor' = "done"
       /\ pc' = [pc EXCEPT ![c] = Idle]
       /\ last' = Return("~FNET_Transport", "void", << >>, << >>)
       /\ UNCHANGED <<facadeVars, cfgVars, picked, ioVars, tuneVars, lifeVars, resolves>>

\* resolutions requested, handlers dropped, the resolver at work and the
\* facade destroyed
NextResolve ==
    \/ \E c \in Callers : resolve_async(c) \/ Destroy(c)
    \/ \E r \in 1..MaxResolves : DropHandler(r) \/ R_Complete(r)
SpecResolve == Init /\ [][NextResolve]_vars

\* C6: the destructor gets past its body only when every resolution
\* requested through resolve_async has been delivered to its handler or
\* skipped, and once the destructor has returned no callback fires.
C6_DestructorDrains ==
    /\ [](dtor \in {"releasing_threads", "releasing_resolver", "done"} => Pending = {})
    /\ [][dtor = "done" =>
             \A r \in Resolves : resolves'[r].state = resolves[r].state]_vars

\* the destructor has returned after MaxResolves requests, of which one was
\* delivered and one skipped
C6_Witness ==
    /\ dtor = "done"
    /\ Len(resolves) = MaxResolves
    /\ \E r \in Resolves : resolves[r].state = "delivered"
    /\ \E r \in Resolves : resolves[r].state = "skipped"

\* C19: in the destructor the blocking wait for the pending resolutions
\* has returned before any worker is released, and the resolver handle is
\* released only after every worker has been released; no step of the
\* destructor signals shutdown to a worker, posts to a worker's queue or
\* waits for a worker to finish.
C19_TeardownOrder ==
    /\ [](dtor \in {"none", "waiting", "releasing_threads"} =>
            \A t \in Threads : wstate[t] # "destroyed")
    /\ [](dtor \in {"releasing_resolver", "done"} =>
            \A t \in Threads : wstate[t] = "destroyed")
    /\ [][(dtor = "waiting" /\ dtor' # "waiting") =>
            Pending = {} /\ wstate' = wstate /\ dtor' = "releasing_threads"]_vars
    /\ [][dtor' # dtor => wshut' = wshut /\ wqueue' = wqueue /\ life' = life]_vars

\* the destructor has returned on the largest pool: every worker is released,
\* none was ever signalled to shut down, and the requests made had completed
C19_Witness ==
    /\ dtor = "done"
    /\ last.op = "~FNET_Transport"
    /\ nthreads = MaxThreads
    /\ \A t \in Threads : wstate[t] = "destroyed" /\ ~wshut[t]
    /\ Len(resolves) >= 1
    /\ Pending = {}

\* C15: a resolution requested through resolve_async invokes the handler's
\* callback when it completes exactly if the owner still holds the handler
\* at that moment: a handler dropped before completion is never invoked,
\* neither at completion nor later, and a handler alive at completion is
\* invoked.
C15_WeakHandler ==
    /\ [][\A r \in Resolves :
            (resolves[r].state = "pending" /\ resolves'[r].state # "pending") =>
                (resolves'[r].state = "delivered") = (resolves[r].handler = "held")]_vars
    /\ [][\A r \in Resolves :
            /\ resolves[r].state # "pending" => resolves'[r].state = resolves[r].state
            /\ resolves[r].handler = "dropped" => resolves'[r].handler = "dropped"]_vars
    /\ [](\A r \in Resolves : resolves[r].state = "skipped" => resolves[r].handler = "dropped")

\* of two requests the first completed after its handler was dropped and was
\* skipped, the second completed while its handler was held and was delivered
C15_Witness ==
    /\ Len(resolves) = 2
    /\ resolves[1].handler = "dropped"
    /\ resolves[1].state = "skipped"
    /\ resolves[2].handler = "held"
    /\ resolves[2].state = "delivered"

(* ------------------- ConfigServerHttpRequestExecutor ------------------- *)
\* private static final int MAX_LOOPS
MAX_LOOPS == 2

\* how one attempt on a config server can end: client.execute (or the
\* request factory) throws an exception with a message, or one whose
\* getMessage() is null; the response has a retryable status; the response
\* has another status and its body parses, or does not parse
AttemptResults ==
    {"exception", "exception_no_message", "retryable_status", "body", "bad_body"}
\* the attempts that failed in communication or on a retryable status
FailedResults == {"exception", "exception_no_message", "retryable_status"}

\* how the Thread.sleep before an attempt can go: it is not called while
\* lastException is null; called, it lasts pauseBetweenRetriesMs or ends
\* early on an InterruptedException, which is caught and ignored
Sleeps == IF cfg.lastException # 0 THEN {"full", "interrupted"} ELSE {"none"}

\* the step of tryAllConfigServers that ends a pass over the list
EndOfPass ==
    /\ cfg.pc = "loop"
    /\ cfg.loopRetry < MAX_LOOPS
    /\ cfg.next = cfg.hosts

\* the throw of tryAllConfigServers after MAX_LOOPS passes
GiveUp ==
    /\ cfg.pc = "loop"
    /\ cfg.loopRetry = MAX_LOOPS
    /\ cfg' = [cfg EXCEPT !.pc = "done", !.outcome = "RuntimeException",
                          !.cause = cfg.lastException]

\* the entry of tryAllConfigServers on a list of H config servers
EnterCall ==
    /\ cfg.pc = "idle"
    /\ \E H \in 0..MaxHosts :
          cfg' = [CfgIdle EXCEPT !.pc = "loop", !.hosts = H,
                                 !.pauseBetweenRetriesMs = cfg.pauseBetweenRetriesMs]

\* one attempt of tryAllConfigServers on the next server of the list: the
\* sleep, the request, and what follows from how the request ends
Attempt ==
    /\ cfg.pc = "loop"
    /\ cfg.loopRetry < MAX_LOOPS
    /\ cfg.next < cfg.hosts
    /\ \E sleep \in Sleeps, result \in AttemptResults :
          LET k == Len(cfg.sent) + 1
              sent == Append(cfg.sent,
                             [server |-> cfg.next,
                              slept |-> sleep,
                              ms |-> IF sleep = "none" THEN 0
                                     ELSE cfg.pauseBetweenRetriesMs,
                              result |-> result])
          IN  cfg' =
                CASE result = "exception" ->
                       [cfg EXCEPT !.sent = sent, !.lastException = k, !.next = @ + 1]
                  [] result = "exception_no_message" ->
                       [cfg EXCEPT !.sent = sent, !.pc = "done",
                                   !.outcome = "NullPointerException", !.cause = 0]
                  [] result = "retryable_status" ->
                       [cfg EXCEPT !.sent = sent, !.lastException = k, !.next = @ + 1]
                  [] result = "body" ->
                       [cfg EXCEPT !.sent = sent, !.pc = "done", !.outcome = "returned"]
                  [] result = "bad_body" ->
                       [cfg EXCEPT !.sent = sent, !.pc = "done",
                                   !.outcome = "RuntimeException", !.cause = k]

\* a mutant of tryAllConfigServers: lastException is declared inside the
\* outer loop, so that every pass begins with lastException = null
tryAllConfigServers_reset_per_pass ==
    /\ \/ EnterCall
       \/ Attempt
       \/ /\ EndOfPass
          /\ cfg' = [cfg EXCEPT !.loopRetry = @ + 1, !.next = 0, !.lastException = 0]
       \/ GiveUp
    /\ UNCHANGED <<facadeVars, picked, callVars, ioVars, tuneVars, lifeVars, resolveVars>>

\* ConfigServerHttpRequestExecutor.tryAllConfigServers, called by get, put,
\* patch, post and delete: the entry, one attempt on the next server of the
\* list, the end of a pass over the list, and the throw after MAX_LOOPS
\* passes. lastException is 0 for null, else the number of the attempt
\* whose failure it holds; cause is the cause of the exception thrown.
tryAllConfigServers ==
    /\ \/ EnterCall
       \/ Attempt
       \/ /\ EndOfPass
          /\ cfg' = [cfg EXCEPT !.loopRetry = @ + 1, !.next = 0]
       \/ GiveUp
    /\ UNCHANGED <<facadeVars, picked, callVars, ioVars, tuneVars, lifeVars, resolveVars>>

\* ConfigServerHttpRequestExecutor.eliminatePauseBetweenRetriesForTesting,
\* called between calls
eliminatePauseBetweenRetriesForTesting ==
    /\ cfg.pc = "idle"
    /\ cfg.pauseBetweenRetriesMs # 0
    /\ cfg' = [cfg EXCEPT !.pauseBetweenRetriesMs = 0]
    /\ UNCHANGED <<facadeVars, picked, callVars, ioVars, tuneVars, lifeVars, resolveVars>>

NextCfg == tryAllConfigServers \/ eliminatePauseBetweenRetriesForTesting
SpecCfg == Init /\ [][NextCfg]_vars

\* C17: a call on a list of H config servers sends at most MAX_LOOPS * H
\* requests, to the servers in list order in each pass; the first response
\* whose status is not retryable ends the call, which returns its parsed
\* body, and no request follows it; when every attempt has failed (an
\* exception in communication or a retryable status) the call ends by
\* throwing a RuntimeException whose cause is the last failure.
C17_RetriesThenGivesUp ==
    /\ Len(cfg.sent) <= MAX_LOOPS * cfg.hosts
    /\ \A k \in 1..Len(cfg.sent) :
          /\ cfg.sent[k].server = (k - 1) % cfg.hosts
          /\ cfg.sent[k].result \notin FailedResults =>
                /\ k = Len(cfg.sent)
                /\ cfg.pc = "done"
                /\ cfg.outcome = "returned"
    /\ (cfg.pc = "done" /\ \A k \in 1..Len(cfg.sent) : cfg.sent[k].result \in FailedResults) =>
          /\ cfg.outcome \in {"RuntimeException", "NullPointerException"}
          /\ cfg.cause = Len(cfg.sent)

\* an attempt before request k of the call has failed
FailedBefore(k) == \E j \in 1..(k - 1) : cfg.sent[j].result \in FailedResults

\* C21 as stated: no pause precedes the first request of a call; once an
\* attempt of the call has failed, a pause of pauseBetweenRetriesMs precedes
\* every later request of the call.
C21_FullPauseAfterFailure ==
    \A k \in 1..Len(cfg.sent) :
        /\ k = 1 => cfg.sent[k].slept = "none"
        /\ FailedBefore(k) =>
              cfg.sent[k].slept = "full" /\ cfg.sent[k].ms = cfg.pauseBetweenRetriesMs

\* C21, amended: Thread.sleep is not called before the first request of a
\* call, nor before any request while no attempt of the call has failed;
\* once an attempt has failed, Thread.sleep(pauseBetweenRetriesMs) is called
\* before every later request of the call, the first request of the second
\* pass included; the sleep lasts pauseBetweenRetriesMs unless the thread is
\* interrupted, and then the request follows without the full pause.
C21_SleepCalledAfterFailure ==
    \A k \in 1..Len(cfg.sent) :
        /\ k = 1 => cfg.sent[k].slept = "none"
        /\ (cfg.sent[k].slept # "none") = FailedBefore(k)
        /\ cfg.sent[k].slept \in {"none", "full", "interrupted"}
        /\ cfg.sent[k].ms = IF FailedBefore(k) THEN cfg.pauseBetweenRetriesMs ELSE 0

\* on a list of two or more servers every attempt of the first pass failed:
\* the first request had no sleep, the first request of the second pass came
\* after a full pause of the initial length
C21_Witness ==
    /\ cfg.hosts >= 2
    /\ Len(cfg.sent) = cfg.hosts + 1
    /\ cfg.sent[1].slept = "none"
    /\ cfg.sent[cfg.hosts + 1].server = 0
    /\ cfg.sent[cfg.hosts + 1].slept = "full"
    /\ cfg.sent[cfg.hosts + 1].ms = InitialPauseMs

=============================================================================
